---- MODULE Spec2Model ----
(***************************************************************************)
(* Login flow and failed-attempt rate limiting (AuthService and            *)
(* RateLimitService).  Each request-handling task is a process that runs   *)
(* one call at a time: AuthService.login, or a direct call of              *)
(* RateLimitService.checkRateLimit / incrementAttempt.  Every await on the *)
(* database is a separate step, so calls of different tasks interleave.    *)
(* Time is counted in minutes.                                             *)
(***************************************************************************)
EXTENDS Integers, Sequences, FiniteSets, TLC

\* ---------------------------------------------------------------- bounds
NumProcs == 2
MaxTime  == 20
MaxCount == 6

\* ------------------------------------------------------ program constants
MAX_ATTEMPTS   == 5
WINDOW_MINUTES == 15

\* The clock advances in steps of a third of the window.
TickStep == WINDOW_MINUTES \div 3

Procs     == 1..NumProcs
Origins   == {"ip1", "ip2"}
Emails    == {"a@x", "A@x", "b@x"}
Passwords == {"right", "wrong"}

\* String.prototype.toLowerCase on the e-mail addresses of the model
toLowerCase(e) == IF e = "A@x" THEN "a@x" ELSE e

Identifiers == {toLowerCase(e) : e \in Emails}

\* RateLimitKey: (ip, identifier)
Keys == Origins \X Identifiers

\* the requests of Spec all address one key
SpecOrigins == {"ip1"}
SpecEmails  == {"a@x", "A@x"}

\* hashPassword: a digest that differs from the clear text and is injective
hashPassword(pw) == <<"sha", pw>>

\* the users table: one registered user, keyed by lower-cased e-mail
users == [e \in {"a@x"} |-> [email |-> e, password_hash |-> hashPassword("right")]]

NoRec   == [attemptCount |-> 0, lastReset |-> -1, lastAttempt |-> -1]
ReadErr == [attemptCount |-> -1, lastReset |-> -1, lastAttempt |-> -1]

VARIABLES
  now,       \* wall clock (new Date()), minutes
  store,     \* failed_attempts table: key -> RateLimitAttempt or NoRec
  pc,        \* position of each task
  op,        \* the call the task runs: "login", "check", "inc" or "none"
  ip,        \* getClientIp() / ipAddress argument
  email,     \* email / identifier argument
  data,      \* row returned by the select of getCurrentAttempts
  cur,       \* count returned by getCurrentAttempts to checkRateLimit
  stamp,     \* p_last_attempt of the pending rpc
  attempts,  \* value returned by incrementAttempt
  result,    \* outcome of the call: [kind, remaining]
  nInc,      \* incrementAttempt calls made by the current call
  nRpc,      \* storage calls made by the current incrementAttempt
  cred,      \* what login's read of the users table gave: "none" before
             \* it, then "match" or "mismatch"
  before,    \* attempt_count of the row the rpc of the current call found
  okIncs,    \* per key: rpcs that succeeded during the first window
  limit,     \* logins admitted in flight at a time (fixed for a run)
  readFailed \* the select of some login's pre-check has failed

vars == <<now, store, pc, op, ip, email, data, cur, stamp, attempts, result,
          nInc, nRpc, cred, before, okIncs, limit, readFailed>>

Res(k, r) == [kind |-> k, remaining |-> r]
NoRes     == Res("none", 0)

\* a key that leaves the origin out
keyIdentifierOnly(p) == <<"ip1", toLowerCase(email[p])>>

key(p) == <<ip[p], toLowerCase(email[p])>>

InitLimit(K) ==
  /\ now = 0
  /\ store = [k \in Keys |-> NoRec]
  /\ pc = [p \in Procs |-> "idle"]
  /\ op = [p \in Procs |-> "none"]
  /\ ip = [p \in Procs |-> "ip1"]
  /\ email = [p \in Procs |-> "a@x"]
  /\ data = [p \in Procs |-> NoRec]
  /\ cur = [p \in Procs |-> 0]
  /\ stamp = [p \in Procs |-> 0]
  /\ attempts = [p \in Procs |-> 0]
  /\ result = [p \in Procs |-> NoRes]
  /\ nInc = [p \in Procs |-> 0]
  /\ nRpc = [p \in Procs |-> 0]
  /\ cred = [p \in Procs |-> "none"]
  /\ before = [p \in Procs |-> 0]
  /\ okIncs = [k \in Keys |-> 0]
  /\ limit = K
  /\ readFailed = FALSE

\* every task may run a login at the same time
Init == InitLimit(NumProcs)


\* ------------------------------------------------------- pure functions

\* getCurrentAttempts with the window closed one instant early (>=)
getCurrentAttemptsInclusive(d, t) ==
  IF d = ReadErr THEN 0
  ELSE IF d = NoRec THEN 0
  ELSE IF t >= d.lastReset + WINDOW_MINUTES THEN 0
  ELSE d.attemptCount

\* getCurrentAttempts that blocks when the select fails
getCurrentAttemptsFailClosed(d, t) ==
  IF d = ReadErr THEN MAX_ATTEMPTS
  ELSE IF d = NoRec THEN 0
  ELSE IF t > d.lastReset + WINDOW_MINUTES THEN 0
  ELSE d.attemptCount

\* window test of getCurrentAttempts on a row d returned by the select
getCurrentAttempts(d, t) ==
  IF d = ReadErr THEN 0
  ELSE IF d = NoRec THEN 0
  ELSE IF t > d.lastReset + WINDOW_MINUTES THEN 0
  ELSE d.attemptCount

\* checkRateLimit whose hard block starts one failure late (>)
checkRateLimitStrict(a) ==
  IF a > MAX_ATTEMPTS THEN Res("too-many-requests", 0)
  ELSE IF MAX_ATTEMPTS - a <= 2 THEN Res("attempts-remaining", MAX_ATTEMPTS - a)
  ELSE Res("ok", 0)

\* checkRateLimit whose warning starts one failure late (<= 1)
checkRateLimitLateWarning(a) ==
  IF a >= MAX_ATTEMPTS THEN Res("too-many-requests", 0)
  ELSE IF MAX_ATTEMPTS - a <= 1 THEN Res("attempts-remaining", MAX_ATTEMPTS - a)
  ELSE Res("ok", 0)

\* checkRateLimit whose warning starts one failure early (<= 3)
checkRateLimitEarlyWarning(a) ==
  IF a >= MAX_ATTEMPTS THEN Res("too-many-requests", 0)
  ELSE IF MAX_ATTEMPTS - a <= 3 THEN Res("attempts-remaining", MAX_ATTEMPTS - a)
  ELSE Res("ok", 0)

\* checkRateLimit on the count a returned by getCurrentAttempts
checkRateLimit(a) ==
  IF a >= MAX_ATTEMPTS THEN Res("too-many-requests", 0)
  ELSE IF MAX_ATTEMPTS - a <= 2 THEN Res("attempts-remaining", MAX_ATTEMPTS - a)
  ELSE Res("ok", 0)

\* the stored procedure increment_failed_attempts: one atomic
\* increment-or-reset-and-set-to-1 on the row of the key
increment_failed_attempts(rec, t) ==
  IF rec = NoRec \/ t > rec.lastReset + WINDOW_MINUTES
  THEN [attemptCount |-> 1, lastReset |-> t, lastAttempt |-> t]
  ELSE [attemptCount |-> rec.attemptCount + 1, lastReset |-> rec.lastReset,
        lastAttempt |-> t]

\* incrementAttempt returning the attempts left instead of the count
incrementAttemptReturnRemaining(ok, d) == IF ok THEN MAX_ATTEMPTS - d ELSE 0

\* incrementAttempt reporting a full counter when the rpc fails
incrementAttemptReturnFailClosed(ok, d) == IF ok THEN d ELSE MAX_ATTEMPTS

\* value incrementAttempt returns for the rpc reply: data || 0, 0 on error
incrementAttemptReturn(ok, d) == IF ok THEN d ELSE 0

\* messaging of handleFailedLogin for the count incrementAttempt returned
failedLoginMessage(a) ==
  IF MAX_ATTEMPTS - a <= 0 THEN Res("lockout", 0)
  ELSE IF MAX_ATTEMPTS - a <= 2 THEN Res("warning", MAX_ATTEMPTS - a)
  ELSE Res("invalid-credentials", 0)

\* password comparison of login against the row of the users table
credentialsMatch(found, id, pw) ==
  /\ found
  /\ id \in DOMAIN users
  /\ users[id].password_hash = hashPassword(pw)

\* ------------------------------------------------------------- actions

\* calls that may still add a failure to the store
Pending ==
  {q \in Procs : /\ op[q] \in {"login", "inc"}
                  /\ pc[q] \in {"check_read", "check_eval", "verify",
                                 "inc_call", "inc_exec"}}

RECURSIVE Stored(_)
Stored(ks) ==
  IF ks = {} THEN 0
  ELSE LET k == CHOOSE x \in ks : TRUE
       IN store[k].attemptCount + Stored(ks \ {k})

\* the failures stored and under way stay below MaxCount
Room == Stored(Keys) + Cardinality(Pending) < MaxCount

\* a task starts AuthService.login({email, password}); the password is
\* drawn where login first reads it, in Verify
StartLoginFrom(p, O, E) ==
  /\ pc[p] = "idle"
  /\ Room
  /\ \E i \in O, e \in E :
       /\ ip' = [ip EXCEPT ![p] = i]
       /\ email' = [email EXCEPT ![p] = e]
  /\ op' = [op EXCEPT ![p] = "login"]
  /\ pc' = [pc EXCEPT ![p] = "check_read"]
  /\ UNCHANGED <<now, store, data, cur, stamp, attempts, result, nInc, nRpc,
                 cred, before, okIncs, limit, readFailed>>

\* a task calls RateLimitService.checkRateLimit(ipAddress, identifier)
StartCheckFrom(p, O, E) ==
  /\ pc[p] = "idle"
  /\ \E i \in O, e \in {toLowerCase(x) : x \in E} :
       /\ ip' = [ip EXCEPT ![p] = i]
       /\ email' = [email EXCEPT ![p] = e]
  /\ op' = [op EXCEPT ![p] = "check"]
  /\ pc' = [pc EXCEPT ![p] = "check_read"]
  /\ UNCHANGED <<now, store, data, cur, stamp, attempts, result, nInc, nRpc,
                 cred, before, okIncs, limit, readFailed>>

\* a task calls RateLimitService.incrementAttempt(ipAddress, identifier)
StartIncrementFrom(p, O, E) ==
  /\ pc[p] = "idle"
  /\ Room
  /\ \E i \in O, e \in {toLowerCase(x) : x \in E} :
       /\ ip' = [ip EXCEPT ![p] = i]
       /\ email' = [email EXCEPT ![p] = e]
  /\ op' = [op EXCEPT ![p] = "inc"]
  /\ pc' = [pc EXCEPT ![p] = "inc_call"]
  /\ UNCHANGED <<now, store, data, cur, stamp, attempts, result, nInc, nRpc,
                 cred, before, okIncs, limit, readFailed>>

StartLogin(p)     == StartLoginFrom(p, SpecOrigins, SpecEmails)
StartCheck(p)     == StartCheckFrom(p, SpecOrigins, SpecEmails)
StartIncrement(p) == StartIncrementFrom(p, SpecOrigins, SpecEmails)

\* getCurrentAttempts: the select on failed_attempts answers (row, no row
\* or error)
GetCurrentAttemptsRead(p) ==
  /\ pc[p] = "check_read"
  /\ \E ok \in BOOLEAN :
       /\ data' = [data EXCEPT ![p] = IF ok THEN store[key(p)] ELSE ReadErr]
       /\ readFailed' = (readFailed \/ (~ok /\ op[p] = "login"))
  /\ pc' = [pc EXCEPT ![p] = "check_eval"]
  /\ UNCHANGED <<now, store, op, ip, email, cur, stamp, attempts, result, nInc,
                 nRpc, cred, before, okIncs, limit>>

\* checkRateLimit that deletes the row of a lapsed window when it reads it
CheckRateLimitResets(p) ==
  /\ pc[p] = "check_eval"
  /\ LET a == getCurrentAttempts(data[p], now)
         r == checkRateLimit(a)
     IN IF op[p] = "login" /\ r.kind = "ok"
        THEN /\ pc' = [pc EXCEPT ![p] = "verify"]
             /\ data' = [data EXCEPT ![p] = NoRec]
             /\ UNCHANGED <<result, cur>>
        ELSE /\ pc' = [pc EXCEPT ![p] = "done"]
             /\ cur' = [cur EXCEPT ![p] = a]
             /\ result' = [result EXCEPT ![p] = r]
             /\ UNCHANGED data
  /\ store' = IF /\ data[p] \notin {NoRec, ReadErr}
                 /\ now > data[p].lastReset + WINDOW_MINUTES
              THEN [store EXCEPT ![key(p)] = NoRec] ELSE store
  /\ UNCHANGED <<now, op, ip, email, stamp, attempts, nInc, nRpc, cred, before,
                 okIncs, limit, readFailed>>

\* checkRateLimit that restarts the window of a key each time it blocks it
CheckRateLimitExtends(p) ==
  /\ pc[p] = "check_eval"
  /\ LET a == getCurrentAttempts(data[p], now)
         r == checkRateLimit(a)
     IN /\ IF op[p] = "login" /\ r.kind = "ok"
           THEN /\ pc' = [pc EXCEPT ![p] = "verify"]
                /\ data' = [data EXCEPT ![p] = NoRec]
                /\ UNCHANGED <<result, cur>>
           ELSE /\ pc' = [pc EXCEPT ![p] = "done"]
                /\ cur' = [cur EXCEPT ![p] = a]
                /\ result' = [result EXCEPT ![p] = r]
                /\ UNCHANGED data
        /\ store' = IF r.kind = "too-many-requests" /\ store[key(p)] # NoRec
                    THEN [store EXCEPT ![key(p)].lastReset = now]
                    ELSE store
  /\ UNCHANGED <<now, op, ip, email, stamp, attempts, nInc, nRpc, cred, before,
                 okIncs, limit, readFailed>>

\* login that treats the warning of checkRateLimit as soft and goes on
CheckRateLimitSoftWarning(p) ==
  /\ pc[p] = "check_eval"
  /\ LET a == getCurrentAttempts(data[p], now)
         r == checkRateLimit(a)
     IN IF op[p] = "login" /\ r.kind \in {"ok", "attempts-remaining"}
        THEN /\ pc' = [pc EXCEPT ![p] = "verify"]
             /\ data' = [data EXCEPT ![p] = NoRec]
             /\ UNCHANGED <<result, cur>>
        ELSE /\ pc' = [pc EXCEPT ![p] = "done"]
             /\ cur' = [cur EXCEPT ![p] = a]
             /\ result' = [result EXCEPT ![p] = r]
             /\ UNCHANGED data
  /\ UNCHANGED <<now, store, op, ip, email, stamp, attempts, nInc, nRpc,
                 cred, before, okIncs, limit, readFailed>>

\* getCurrentAttempts compares the row with new Date(); checkRateLimit
\* throws or returns; login rethrows the AuthError or goes on
CheckRateLimit(p) ==
  /\ pc[p] = "check_eval"
  /\ LET a == getCurrentAttempts(data[p], now)
         r == checkRateLimit(a)
     IN IF op[p] = "login" /\ r.kind = "ok"
        THEN /\ pc' = [pc EXCEPT ![p] = "verify"]
             /\ data' = [data EXCEPT ![p] = NoRec]
             /\ UNCHANGED <<result, cur>>
        ELSE /\ pc' = [pc EXCEPT ![p] = "done"]
             /\ cur' = [cur EXCEPT ![p] = a]
             /\ result' = [result EXCEPT ![p] = r]
             /\ UNCHANGED data
  /\ UNCHANGED <<now, store, op, ip, email, stamp, attempts, nInc, nRpc, cred,
                 before, okIncs, limit, readFailed>>

\* login that counts a failure whatever the comparison gave
VerifyAlwaysCounts(p) ==
  /\ pc[p] = "verify"
  /\ \E found \in BOOLEAN, password \in Passwords :
       LET m == credentialsMatch(found, toLowerCase(email[p]), password) IN
       /\ cred' = [cred EXCEPT ![p] = IF m THEN "match" ELSE "mismatch"]
       /\ pc' = [pc EXCEPT ![p] = "inc_call"]
  /\ UNCHANGED <<now, store, op, ip, email, data, cur, stamp, attempts, result,
                 nInc, nRpc, before, okIncs, limit, readFailed>>

\* login hashes the password, selects the user and compares the digests
Verify(p) ==
  /\ pc[p] = "verify"
  /\ \E found \in BOOLEAN, password \in Passwords :
       LET m == credentialsMatch(found, toLowerCase(email[p]), password) IN
       /\ cred' = [cred EXCEPT ![p] = IF m THEN "match" ELSE "mismatch"]
       /\ pc' = [pc EXCEPT ![p] = IF m THEN "success" ELSE "inc_call"]
  /\ UNCHANGED <<now, store, op, ip, email, data, cur, stamp, attempts, result,
                 nInc, nRpc, before, okIncs, limit, readFailed>>

\* incrementAttempt sends the rpc with p_last_attempt = new Date()
IncrementCall(p) ==
  /\ pc[p] = "inc_call"
  /\ stamp' = [stamp EXCEPT ![p] = now]
  /\ nInc' = [nInc EXCEPT ![p] = @ + 1]
  /\ pc' = [pc EXCEPT ![p] = "inc_exec"]
  /\ UNCHANGED <<now, store, op, ip, email, data, cur, attempts, result, nRpc,
                 cred, before, okIncs, limit, readFailed>>

\* incrementAttempt that sends the rpc a second time
IncrementExecRetry(p) ==
  /\ pc[p] = "inc_exec"
  /\ nRpc' = [nRpc EXCEPT ![p] = @ + 1]
  /\ before' = [before EXCEPT ![p] = store[key(p)].attemptCount]
  /\ \E ok \in BOOLEAN :
       LET once == increment_failed_attempts(store[key(p)], stamp[p])
           new  == increment_failed_attempts(once, stamp[p])
       IN
       /\ store' = IF ok THEN [store EXCEPT ![key(p)] = new] ELSE store
       /\ okIncs' = IF ok /\ now <= WINDOW_MINUTES
                     THEN [okIncs EXCEPT ![key(p)] = @ + 1] ELSE okIncs
       /\ attempts' = [attempts EXCEPT ![p] =
                         incrementAttemptReturn(ok, new.attemptCount)]
  /\ stamp' = [stamp EXCEPT ![p] = 0]
  /\ IF op[p] = "inc"
     THEN /\ pc' = [pc EXCEPT ![p] = "done"]
          /\ result' = [result EXCEPT ![p] = Res("ok", 0)]
     ELSE /\ pc' = [pc EXCEPT ![p] = "audit"]
          /\ UNCHANGED result
  /\ UNCHANGED <<now, op, ip, email, data, cur, nInc, cred, limit, readFailed>>

\* the database runs the rpc (or fails) and incrementAttempt returns
IncrementExec(p) ==
  /\ pc[p] = "inc_exec"
  /\ nRpc' = [nRpc EXCEPT ![p] = @ + 1]
  /\ before' = [before EXCEPT ![p] = store[key(p)].attemptCount]
  /\ \E ok \in BOOLEAN :
       LET new == increment_failed_attempts(store[key(p)], stamp[p]) IN
       /\ store' = IF ok THEN [store EXCEPT ![key(p)] = new] ELSE store
       /\ okIncs' = IF ok /\ now <= WINDOW_MINUTES
                     THEN [okIncs EXCEPT ![key(p)] = @ + 1] ELSE okIncs
       /\ attempts' = [attempts EXCEPT ![p] =
                         incrementAttemptReturn(ok, new.attemptCount)]
  /\ stamp' = [stamp EXCEPT ![p] = 0]
  /\ IF op[p] = "inc"
     THEN /\ pc' = [pc EXCEPT ![p] = "done"]
          /\ result' = [result EXCEPT ![p] = Res("ok", 0)]
     ELSE /\ pc' = [pc EXCEPT ![p] = "audit"]
          /\ UNCHANGED result
  /\ UNCHANGED <<now, op, ip, email, data, cur, nInc, cred, limit, readFailed>>

\* handleFailedLogin after incrementAttempt: audit event, then the message;
\* an audit failure is caught and login throws plain invalid credentials
HandleFailedLogin(p) ==
  /\ pc[p] = "audit"
  /\ \E auditOk \in BOOLEAN :
       result' = [result EXCEPT ![p] =
                    IF auditOk THEN failedLoginMessage(attempts[p])
                    ELSE Res("invalid-credentials", 0)]
  /\ pc' = [pc EXCEPT ![p] = "done"]
  /\ UNCHANGED <<now, store, op, ip, email, data, cur, stamp, attempts, nInc,
                 nRpc, cred, before, okIncs, limit, readFailed>>

\* login that clears the failures of the key when the password matches
LoginSuccessResets(p) ==
  /\ pc[p] = "success"
  /\ \E ok \in BOOLEAN :
       result' = [result EXCEPT ![p] =
                    Res(IF ok THEN "success" ELSE "server-error", 0)]
  /\ store' = [store EXCEPT ![key(p)] = NoRec]
  /\ pc' = [pc EXCEPT ![p] = "done"]
  /\ UNCHANGED <<now, op, ip, email, data, cur, stamp, attempts, nInc, nRpc,
                 cred, before, okIncs, limit, readFailed>>

\* login after a matching password: tokens, cookies, audit, last_login;
\* an exception of a collaborator becomes a server error
LoginSuccess(p) ==
  /\ pc[p] = "success"
  /\ \E ok \in BOOLEAN :
       result' = [result EXCEPT ![p] =
                    Res(IF ok THEN "success" ELSE "server-error", 0)]
  /\ pc' = [pc EXCEPT ![p] = "done"]
  /\ UNCHANGED <<now, store, op, ip, email, data, cur, stamp, attempts, nInc,
                 nRpc, cred, before, okIncs, limit, readFailed>>

\* the call has returned or thrown; the task is free for the next request
Return(p) ==
  /\ pc[p] = "done"
  /\ pc' = [pc EXCEPT ![p] = "idle"]
  /\ op' = [op EXCEPT ![p] = "none"]
  /\ ip' = [ip EXCEPT ![p] = "ip1"]
  /\ email' = [email EXCEPT ![p] = "a@x"]
  /\ cur' = [cur EXCEPT ![p] = 0]
  /\ attempts' = [attempts EXCEPT ![p] = 0]
  /\ result' = [result EXCEPT ![p] = NoRes]
  /\ nInc' = [nInc EXCEPT ![p] = 0]
  /\ nRpc' = [nRpc EXCEPT ![p] = 0]
  /\ cred' = [cred EXCEPT ![p] = "none"]
  /\ before' = [before EXCEPT ![p] = 0]
  /\ data' = [data EXCEPT ![p] = NoRec]
  /\ UNCHANGED <<now, store, stamp, okIncs, limit, readFailed>>

\* time passes; the count of first-window rpcs is dropped with the window
Tick ==
  /\ now + TickStep <= MaxTime
  /\ now' = now + TickStep
  /\ okIncs' = IF now' <= WINDOW_MINUTES THEN okIncs
                ELSE [k \in Keys |-> 0]
  /\ UNCHANGED <<store, pc, op, ip, email, data, cur, stamp, attempts, result,
                 nInc, nRpc, cred, before, limit, readFailed>>

Next ==
  \/ \E p \in Procs : StartLogin(p)
  \/ \E p \in Procs : StartCheck(p)
  \/ \E p \in Procs : StartIncrement(p)
  \/ \E p \in Procs : GetCurrentAttemptsRead(p)
  \/ \E p \in Procs : CheckRateLimit(p)
  \/ \E p \in Procs : Verify(p)
  \/ \E p \in Procs : IncrementCall(p)
  \/ \E p \in Procs : IncrementExec(p)
  \/ \E p \in Procs : HandleFailedLogin(p)
  \/ \E p \in Procs : LoginSuccess(p)
  \/ \E p \in Procs : Return(p)
  \/ Tick

Spec == Init /\ [][Next]_vars

\* SpecKeys: the same calls, addressed to every origin and e-mail, at one
\* instant
StartLoginAny(p)     == StartLoginFrom(p, Origins, Emails)
StartCheckAny(p)     == StartCheckFrom(p, Origins, Emails)
StartIncrementAny(p) == StartIncrementFrom(p, Origins, Emails)

NextKeys ==
  \/ \E p \in Procs : StartLoginAny(p)
  \/ \E p \in Procs : StartCheckAny(p)
  \/ \E p \in Procs : StartIncrementAny(p)
  \/ \E p \in Procs : GetCurrentAttemptsRead(p)
  \/ \E p \in Procs : CheckRateLimit(p)
  \/ \E p \in Procs : Verify(p)
  \/ \E p \in Procs : IncrementCall(p)
  \/ \E p \in Procs : IncrementExec(p)
  \/ \E p \in Procs : HandleFailedLogin(p)
  \/ \E p \in Procs : LoginSuccess(p)
  \/ \E p \in Procs : Return(p)

SpecKeys == Init /\ [][NextKeys]_vars

\* SpecLogin: the tasks only run logins, at most `limit` of them in flight
\* at a time, for every limit from 1 (one login after the other) up
InitLogin == \E K \in 1..NumProcs : InitLimit(K)

StartLoginLimited(p) ==
  /\ Cardinality({q \in Procs : op[q] = "login"}) < limit
  /\ StartLogin(p)

NextLogin ==
  \/ \E p \in Procs : StartLoginLimited(p)
  \/ \E p \in Procs : GetCurrentAttemptsRead(p)
  \/ \E p \in Procs : CheckRateLimit(p)
  \/ \E p \in Procs : Verify(p)
  \/ \E p \in Procs : IncrementCall(p)
  \/ \E p \in Procs : IncrementExec(p)
  \/ \E p \in Procs : HandleFailedLogin(p)
  \/ \E p \in Procs : LoginSuccess(p)
  \/ \E p \in Procs : Return(p)
  \/ Tick

SpecLogin == InitLogin /\ [][NextLogin]_vars

\* ------------------------------------------------------------- claims

\* the step in which task p's checkRateLimit evaluates the row it read
CheckStep(p) == pc[p] = "check_eval" /\ pc'[p] # "check_eval"

\* the step in which the rpc of task p's incrementAttempt is answered
IncStep(p) == pc[p] = "inc_exec" /\ pc'[p] # "inc_exec"

IsRow(d) == d \notin {NoRec, ReadErr}

InWindow(d, t) == t <= d.lastReset + WINDOW_MINUTES

\* C1: when the row read holds attemptCount >= MAX_ATTEMPTS and its window
\* has not expired, checkRateLimit fails with too-many-requests; a login
\* that gets this outcome ends there, having neither read the users table
\* nor called incrementAttempt.
C1_HardBlock ==
  [][\A p \in Procs :
       /\ ( /\ CheckStep(p)
            /\ IsRow(data[p])
            /\ data[p].attemptCount >= MAX_ATTEMPTS
            /\ InWindow(data[p], now) )
          => /\ pc'[p] = "done"
             /\ result'[p] = Res("too-many-requests", 0)
             /\ cred'[p] = "none"
             /\ nInc'[p] = 0
       /\ ( /\ pc[p] = "done"
            /\ op[p] = "login"
            /\ result[p].kind = "too-many-requests" )
          => /\ pc'[p] \in {"done", "idle"}
             /\ cred'[p] = "none"
             /\ nInc'[p] = 0
    ]_vars

C1_Witness ==
  \E p \in Procs :
    /\ op[p] = "login" /\ pc[p] = "done"
    /\ IsRow(data[p]) /\ data[p].attemptCount >= MAX_ATTEMPTS
    /\ result[p].kind = "too-many-requests"
    /\ cred[p] = "none" /\ nInc[p] = 0

\* C2: a login whose pre-check gave the attempts-remaining warning (count
\* read of MAX_ATTEMPTS - 2 or MAX_ATTEMPTS - 1) still reads the users
\* table, so that it ends with the outcome of the credential check.
C2_WarningIsSoft ==
  \A p \in Procs :
    ( /\ op[p] = "login" /\ pc[p] = "done"
      /\ cur[p] < MAX_ATTEMPTS /\ MAX_ATTEMPTS - cur[p] <= 2 )
    => /\ cred[p] # "none"
       /\ result[p].kind # "attempts-remaining"

\* C3: a checkRateLimit that read a count c with c < MAX_ATTEMPTS and
\* MAX_ATTEMPTS - c <= 2 ends with the warning carrying
\* remaining = MAX_ATTEMPTS - c, never with the hard block.
C3_WarningRemaining ==
  \A p \in Procs :
    ( /\ op[p] \in {"check", "login"} /\ pc[p] = "done" /\ cred[p] = "none"
      /\ cur[p] < MAX_ATTEMPTS /\ MAX_ATTEMPTS - cur[p] <= 2 )
    => result[p] = Res("attempts-remaining", MAX_ATTEMPTS - cur[p])

C3_Witness ==
  \E p \in Procs :
    /\ op[p] = "check" /\ pc[p] = "done"
    /\ IsRow(data[p]) /\ data[p].attemptCount = MAX_ATTEMPTS - 1
    /\ cur[p] = MAX_ATTEMPTS - 1
    /\ result[p] = Res("attempts-remaining", 1)

\* C4: as long as every incrementAttempt so far was stamped within one
\* window of the start (now <= WINDOW_MINUTES, no row at the start), the
\* stored attemptCount of each key is the number of rpcs that succeeded for
\* it, whatever the order in which the calls were sent and answered.
C4_NoLostIncrement ==
  now <= WINDOW_MINUTES
  => \A k \in Keys : store[k].attemptCount = okIncs[k]

\* two calls that overlapped: the one stamped first was answered last
C4_Witness ==
  \E k \in Keys :
    /\ now <= WINDOW_MINUTES
    /\ okIncs[k] >= 2
    /\ store[k].attemptCount = okIncs[k]
    /\ store[k].lastAttempt < store[k].lastReset

\* C5: for a select that answered, getCurrentAttempts gives 0 exactly when
\* there is no row or now > lastReset + WINDOW_MINUTES, and the stored
\* attemptCount otherwise (also at now = lastReset + WINDOW_MINUTES); with a
\* lapsed window checkRateLimit succeeds whatever the stored count.
C5_EffectiveCount ==
  [][\A p \in Procs :
       ( CheckStep(p) /\ data[p] # ReadErr )
       => LET lapsed == \/ data[p] = NoRec
                        \/ now > data[p].lastReset + WINDOW_MINUTES
          IN /\ lapsed => \/ pc'[p] = "verify"
                          \/ /\ pc'[p] = "done"
                             /\ cur'[p] = 0
                             /\ result'[p] = Res("ok", 0)
             /\ ~lapsed => /\ data[p].attemptCount > 0
                           /\ \/ pc'[p] = "verify" /\ data[p].attemptCount < MAX_ATTEMPTS - 2
                              \/ /\ pc'[p] = "done"
                                 /\ cur'[p] = data[p].attemptCount
    ]_vars

C5_Witness ==
  \E p \in Procs :
    /\ op[p] = "check" /\ pc[p] = "done"
    /\ IsRow(data[p]) /\ data[p].attemptCount >= MAX_ATTEMPTS
    /\ cur[p] = 0
    /\ result[p] = Res("ok", 0)

\* C6: an rpc that succeeds on a row whose window has lapsed at the call's
\* time stamp stores and returns attemptCount = 1 with lastReset = the
\* stamp; within the window it stores and returns the previous count + 1
\* and keeps lastReset; in both cases lastAttempt becomes the stamp.
C6_IncrementOrReset ==
  [][\A p \in Procs :
       ( IncStep(p) /\ store' # store )
       => LET old == store[key(p)]
              new == store'[key(p)]
              t   == stamp[p]
          IN /\ new.lastAttempt = t
             /\ attempts'[p] = new.attemptCount
             /\ IF old = NoRec \/ t > old.lastReset + WINDOW_MINUTES
                THEN new.attemptCount = 1 /\ new.lastReset = t
                ELSE /\ new.attemptCount = old.attemptCount + 1
                     /\ new.lastReset = old.lastReset
    ]_vars

C6_Witness ==
  \E p \in Procs :
    /\ pc[p] = "done" /\ op[p] = "inc"
    /\ before[p] >= MAX_ATTEMPTS
    /\ attempts[p] = 1
    /\ store[key(p)].attemptCount = 1
    /\ store[key(p)].lastReset > WINDOW_MINUTES

\* C7: a login has called incrementAttempt exactly once as soon as its
\* credential check has failed and is being handled, and not at all when
\* the credentials matched or when the pre-check stopped it.
C7_IncrementOncePerFailure ==
  \A p \in Procs :
    op[p] = "login"
    => /\ cred[p] = "none" => nInc[p] = 0
       /\ cred[p] = "match" => nInc[p] = 0 /\ pc[p] \in {"success", "done"}
       /\ cred[p] = "mismatch"
            => /\ nInc[p] = IF pc[p] = "inc_call" THEN 0 ELSE 1
               /\ pc[p] \in {"inc_call", "inc_exec", "audit", "done"}
       /\ pc[p] = "done"
            => ( result[p].kind \in {"too-many-requests", "attempts-remaining"}
                   <=> cred[p] = "none" )

C7_Witness ==
  \E p, q \in Procs :
    /\ op[p] = "login" /\ pc[p] = "done"
    /\ cred[p] = "mismatch" /\ nInc[p] = 1
    /\ op[q] = "login" /\ pc[q] = "done"
    /\ cred[q] = "match" /\ nInc[q] = 0

\* C8: no step of checkRateLimit (the select, the evaluation) changes any
\* stored row, whatever its outcome.
C8_CheckReadOnly ==
  [][\A p \in Procs :
       ( pc[p] \in {"check_read", "check_eval"} /\ pc'[p] # pc[p] )
       => store' = store
    ]_vars

\* a check that found a lapsed row with a stored count and left it in place
C8_Witness ==
  \E p \in Procs :
    /\ op[p] = "check" /\ pc[p] = "done"
    /\ IsRow(data[p]) /\ cur[p] = 0
    /\ store[key(p)] = data[p]
    /\ now > data[p].lastReset + WINDOW_MINUTES

\* C9: when the select of getCurrentAttempts fails, checkRateLimit returns
\* silently as for a count of 0, whatever is stored, and a login goes on to
\* the credential check.
C9_ReadFailOpen ==
  [][\A p \in Procs :
       ( CheckStep(p) /\ data[p] = ReadErr )
       => IF op[p] = "login"
          THEN pc'[p] = "verify" /\ result'[p] = NoRes
          ELSE /\ pc'[p] = "done"
               /\ cur'[p] = 0
               /\ result'[p] = Res("ok", 0)
    ]_vars

C9_Witness ==
  \E p \in Procs :
    /\ op[p] = "check" /\ pc[p] = "done"
    /\ data[p] = ReadErr
    /\ result[p] = Res("ok", 0)
    /\ store[key(p)].attemptCount >= MAX_ATTEMPTS
    /\ InWindow(store[key(p)], now)

\* C10: when the rpc fails, incrementAttempt returns 0 after that one
\* storage call and the stored rows are unchanged; the failed login then
\* ends with the plain invalid-credentials outcome.
C10_IncrementFailOpen ==
  [][\A p \in Procs :
       /\ ( IncStep(p) /\ store' = store )
          => /\ attempts'[p] = 0
             /\ nRpc'[p] = 1
             /\ pc'[p] = IF op[p] = "inc" THEN "done" ELSE "audit"
       /\ ( pc[p] = "audit" /\ pc'[p] # "audit" /\ attempts[p] = 0 )
          => /\ pc'[p] = "done"
             /\ result'[p] = Res("invalid-credentials", 0)
    ]_vars

C10_Witness ==
  \E p \in Procs :
    /\ op[p] = "login" /\ pc[p] = "done"
    /\ cred[p] = "mismatch"
    /\ nRpc[p] = 1 /\ attempts[p] = 0
    /\ before[p] >= MAX_ATTEMPTS - 1
    /\ store[key(p)].attemptCount = before[p]
    /\ result[p] = Res("invalid-credentials", 0)

\* C11: a login whose credential check failed ends, for the count a that
\* incrementAttempt returned, with the lockout message when
\* MAX_ATTEMPTS - a <= 0, with the warning carrying MAX_ATTEMPTS - a when
\* 0 < MAX_ATTEMPTS - a <= 2, and with plain invalid credentials otherwise.
C11_FailureMessage ==
  \A p \in Procs :
    ( op[p] = "login" /\ pc[p] = "done" /\ cred[p] = "mismatch" )
    => LET remaining == MAX_ATTEMPTS - attempts[p] IN
       /\ remaining <= 0 => result[p] = Res("lockout", 0)
       /\ (0 < remaining /\ remaining <= 2)
            => result[p] = Res("warning", remaining)
       /\ remaining > 2 => result[p] = Res("invalid-credentials", 0)

\* C13: a checkRateLimit that read a count c ends silently exactly when
\* MAX_ATTEMPTS - c > 2 (so always when the key has no row), with the
\* warning exactly when c < MAX_ATTEMPTS and MAX_ATTEMPTS - c <= 2, and
\* with the hard block exactly when c >= MAX_ATTEMPTS; it has no other
\* outcome.
C13_ThreeOutcomes ==
  \A p \in Procs :
    ( pc[p] = "done" /\ op[p] \in {"check", "login"} /\ cred[p] = "none" )
    => LET c == cur[p]
           k == result[p].kind
       IN /\ k \in {"ok", "attempts-remaining", "too-many-requests"}
          /\ k = "ok" <=> MAX_ATTEMPTS - c > 2
          /\ k = "attempts-remaining"
               <=> (c < MAX_ATTEMPTS /\ MAX_ATTEMPTS - c <= 2)
          /\ k = "too-many-requests" <=> c >= MAX_ATTEMPTS
          /\ data[p] = NoRec => result[p] = Res("ok", 0)
          /\ op[p] = "login" => k # "ok"

C13_Witness ==
  \E p \in Procs :
    /\ op[p] = "check" /\ pc[p] = "done"
    /\ data[p] = NoRec /\ store[key(p)] = NoRec
    /\ cur[p] = 0
    /\ result[p] = Res("ok", 0)

\* C14: a stored row whose lastAttempt lies more than WINDOW_MINUTES before
\* now reads as a count of 0, whatever its attemptCount.
C14_LastAttemptExpiry ==
  \A k \in Keys :
    ( store[k] # NoRec /\ now > store[k].lastAttempt + WINDOW_MINUTES )
    => getCurrentAttempts(store[k], now) = 0

\* C15: whatever the audit sink does with the LOGIN_FAILED event, the
\* failed login has called incrementAttempt once, does not end with a
\* server error and ends with the outcome that handleFailedLogin gives for
\* the count returned when the audit call succeeds.
C15_AuditSwallowed ==
  [][\A p \in Procs :
       ( pc[p] = "audit" /\ pc'[p] # "audit" )
       => /\ pc'[p] = "done"
          /\ nInc'[p] = 1
          /\ result'[p].kind # "server-error"
          /\ result'[p] = failedLoginMessage(attempts[p])
    ]_vars

\* C17: a login turned away by the pre-check leaves the row of its key as
\* it was (attemptCount and lastReset included), and once now is past
\* lastReset + WINDOW_MINUTES of a row with MAX_ATTEMPTS or more failures
\* checkRateLimit succeeds silently.
C17_LockoutEnds ==
  [][\A p \in Procs :
       /\ ( /\ op[p] = "login" /\ cred[p] = "none"
            /\ pc[p] \in {"check_read", "check_eval", "done"}
            /\ pc'[p] # pc[p] )
          => /\ store'[key(p)] = store[key(p)]
             /\ pc'[p] = "done" => nInc'[p] = 0
       /\ ( /\ CheckStep(p) /\ IsRow(data[p])
            /\ data[p].attemptCount >= MAX_ATTEMPTS
            /\ now > data[p].lastReset + WINDOW_MINUTES )
          => IF op[p] = "login"
             THEN pc'[p] = "verify"
             ELSE pc'[p] = "done" /\ result'[p] = Res("ok", 0)
    ]_vars

\* a login was blocked on a row; after the window a check of the same,
\* unchanged row succeeded
C17_Witness ==
  \E p, q \in Procs :
    /\ op[q] = "login" /\ pc[q] = "done"
    /\ result[q].kind = "too-many-requests"
    /\ op[p] = "check" /\ pc[p] = "done"
    /\ key(p) = key(q)
    /\ data[p] = data[q] /\ store[key(p)] = data[q]
    /\ result[p] = Res("ok", 0)

\* C18: no step of a login whose password matches changes the stored rows:
\* the failures recorded before it stay.
C18_SuccessKeepsRecord ==
  [][\A p \in Procs :
       ( /\ op[p] = "login"
         /\ pc[p] \in {"check_read", "check_eval", "verify", "success"}
         /\ pc'[p] # pc[p] )
       => store' = store
    ]_vars

\* a login succeeded on a key that still holds failures inside the window
C18_Witness ==
  \E p \in Procs :
    /\ op[p] = "login" /\ pc[p] = "done"
    /\ result[p].kind = "success"
    /\ store[key(p)].attemptCount >= MAX_ATTEMPTS - 2
    /\ InWindow(store[key(p)], now)

\* C19: every step of a call for the pair (ip, identifier) leaves the rows
\* of all other pairs unchanged, and the select of its checkRateLimit
\* returns the row of its own pair (or fails), so the outcome for a key
\* depends on that key's failures only.
C19_KeyIsolation ==
  [][\A p \in Procs :
       ( pc[p] # "idle" /\ pc'[p] # pc[p] )
       => LET k == <<ip[p], toLowerCase(email[p])>> IN
          /\ \A j \in Keys \ {k} : store'[j] = store[j]
          /\ pc[p] = "check_read" => data'[p] \in {store[k], ReadErr}
    ]_vars

\* one key is locked out while a check of another key, which shares its
\* identifier or its origin, finds no row and succeeds
C19_Witness ==
  \E p \in Procs, j \in Keys :
    /\ j # key(p) /\ (j[1] = ip[p] \/ j[2] = toLowerCase(email[p]))
    /\ store[j].attemptCount >= MAX_ATTEMPTS
    /\ op[p] = "check" /\ pc[p] = "done"
    /\ data[p] = NoRec /\ store[key(p)] = NoRec
    /\ result[p] = Res("ok", 0)

\* C12: repeated failed logins for one key, one after the other and with
\* the store answering, reach the hard lockout: a login is turned away by
\* the pre-check only when the row it read holds MAX_ATTEMPTS or more
\* failures, so that until then every failed login (the fourth, the
\* fifth, ...) is counted.
C12_FailuresReachLockout ==
  \A p \in Procs :
    ( /\ limit = 1 /\ ~readFailed
      /\ op[p] = "login" /\ pc[p] = "done" /\ cred[p] = "none" )
    => /\ IsRow(data[p])
       /\ data[p].attemptCount >= MAX_ATTEMPTS
       /\ result[p].kind = "too-many-requests"

====
